---- MODULE Spec2Model ----
(***************************************************************************)
(* Model of the blob-backed configuration document of data-safe-haven      *)
(* (src/data_safe_haven/config/config.py) and of the validated field it    *)
(* is built from (src/data_safe_haven/utility/type_checked.py).            *)
(*                                                                         *)
(* A session is one operator process holding one Config object.  The blob  *)
(* is the single remote YAML document that Config.__init__ downloads and   *)
(* Config.upload overwrites.  YAML text is modelled by the value it        *)
(* denotes: a mapping from top-level key to section mapping.               *)
(*                                                                         *)
(* reg is the local context registry.  Spec and SpecSync follow sessions   *)
(* working on the blob; SpecDecode the decoding of a document and the      *)
(* questions asked of it; SpecSection sections and validated fields taken  *)
(* one at a time; SpecDesktops the research desktops of an SRE; SpecUpdate *)
(* update() of a section and of the selected context; SpecContext the      *)
(* operations of the context registry; SpecBackend the backend section and *)
(* its names; SpecNames the names derived from a deployment name; SpecRace *)
(* two sessions creating SREs from one loaded document; SpecRequests the   *)
(* runs of check_merge_requests.py.                                        *)
(***************************************************************************)
EXTENDS Integers, Sequences, FiniteSets, TLC

VARIABLES blob, cfg, last, assigned, reg

vars == <<blob, cfg, last, assigned, reg>>

(***************************************************************************)
(* Bounds                                                                  *)
(***************************************************************************)
\* highest SRE index the model lets sre() hand out
MaxIndex == 3
\* longest SKU list passed to set_research_desktops
MaxSkus == 2

Sessions == {1, 2}
SreNames == {"sre1", "sre2"}
StackNames == {"shm", "sre1"}

(***************************************************************************)
(* Values held by validated fields                                         *)
(***************************************************************************)
\* the TypeChecked descriptor itself: what a field without default reads as
\* when nothing of the right type is stored
Unset == "<TypeChecked>"
\* a YAML scalar that is not a string (an integer written where text belongs)
NonStr == "<int>"
\* strings: empty, of the shape the field's validator accepts, of another shape
StrInputs == {"", "good", "junk"}
BoolVals == {"True", "False"}

None == <<>>
Some(x) == <<x>>
IsSome(o) == Len(o) = 1
Val(o) == o[1]

SetMax(S) == CHOOSE m \in S : \A x \in S : x <= m

\* TypeChecked[str].check_type: isinstance(value, str)
IsStr(v) == v \notin {Unset, NonStr}
\* TypeChecked[bool].check_type: isinstance(value, bool)
IsBool(v) == v \in BoolVals

\* TypeChecked.__set__: a TypeChecked instance is stored as it is, any other
\* value only if it passes check_type; FALSE stands for the raised
\* DataSafeHavenParameterError
\* a __set__ that stores whatever it is given
StrSetAny(v) == TRUE

StrSetOk(v) == v = Unset \/ IsStr(v)
BoolSetOk(v) == v = Unset \/ IsBool(v)

\* TypeChecked.__get__: the stored value if it has the wrapped type, else the
\* default if there is one, else the descriptor
\* a __get__ that hands out whatever is stored
GetStrStored(v, default) == v

GetStr(v, default) == IF IsStr(v) THEN v ELSE default

\* TypeChecked.check_type: the message of the DataSafeHavenParameterError,
\* "Invalid type for '<name>': '<value>' is not a str."
CheckTypeMessage(name, v) == <<"Invalid type for", name, v, "is not a", "str">>
GetBool(v, default) == IF IsBool(v) THEN v ELSE default

(***************************************************************************)
(* Shape validators of data_safe_haven.functions (validate_aad_guid,       *)
(* validate_azure_location, validate_email_address, validate_timezone,     *)
(* validate_ip_address): each accepts exactly the strings of its shape.    *)
(***************************************************************************)
ShapeOk(v) == v = "good"

\* Python truthiness of a field read: a non-empty string or the descriptor
Truthy(v) == v # ""

(***************************************************************************)
(* Derived names (Config.__init__), for the deployment "Acme Deployment"   *)
(***************************************************************************)
DeploymentName == "Acme Deployment"
ShmName == "acmedeployment"
BackendResourceGroupName == "shm-acmedeployment-rg-backend"
BackendStorageAccountName == "shmacmedeploymentbackend"
BackendStorageContainerName == "config"

(***************************************************************************)
(* Sections as constructed                                                 *)
(***************************************************************************)
\* ConfigSectionAzure()
AzureDefault ==
    [admin_group_id |-> Unset, location |-> Unset,
     subscription_id |-> Unset, tenant_id |-> Unset]

\* Config.backend: the section built from the derived names
BackendDerived ==
    [key_vault_name |-> "shm-acmedeplo-kv-backend",
     managed_identity_name |-> "shm-acmedeployment-identity-reader-backend",
     resource_group_name |-> BackendResourceGroupName,
     storage_account_name |-> BackendStorageAccountName,
     storage_container_name |-> BackendStorageContainerName]

\* ConfigSectionPulumi(); stacks maps a stack name to its encoded file
PulumiDefault ==
    [encryption_key_id |-> Unset,
     encryption_key_name |-> "pulumi-encryption-key",
     stacks |-> <<>>,
     storage_container_name |-> "pulumi"]

\* ConfigSectionSHM(name=shm_name_)
ShmDefault ==
    [aad_tenant_id |-> Unset, admin_email_address |-> Unset,
     admin_ip_addresses |-> <<>>, fqdn |-> Unset, name |-> ShmName,
     timezone |-> Unset]

\* ConfigSubsectionRemoteDesktopOpts()
RemoteDesktopDefault == [allow_copy |-> Unset, allow_paste |-> Unset]

\* ConfigSectionSRE()
SreDefault ==
    [data_provider_ip_addresses |-> <<>>,
     index |-> 0,
     remote_desktop |-> RemoteDesktopDefault,
     research_desktops |-> <<>>,
     research_user_ip_addresses |-> <<>>,
     software_packages |-> "none"]

\* ConfigSectionTags(deployment=self.name)
TagsDefault ==
    [deployment |-> DeploymentName, deployed_by |-> "Python",
     project |-> "Data Safe Haven", version |-> "version"]

(***************************************************************************)
(* validate() of each section: TRUE when it returns, FALSE when it raises  *)
(***************************************************************************)
AzureValid(a) ==
    /\ ShapeOk(GetStr(a.admin_group_id, Unset))
    /\ ShapeOk(GetStr(a.location, Unset))
    /\ ShapeOk(GetStr(a.subscription_id, Unset))
    /\ ShapeOk(GetStr(a.tenant_id, Unset))

BackendValid(b) ==
    /\ Truthy(GetStr(b.key_vault_name, Unset))
    /\ Truthy(GetStr(b.managed_identity_name, Unset))
    /\ Truthy(GetStr(b.resource_group_name, Unset))
    /\ Truthy(GetStr(b.storage_account_name, Unset))
    /\ Truthy(GetStr(b.storage_container_name, Unset))

PulumiValid(p) ==
    LET key == GetStr(p.encryption_key_id, Unset)
    IN  IsStr(key) /\ Truthy(key)

ShmValid(m) ==
    /\ ShapeOk(GetStr(m.aad_tenant_id, Unset))
    /\ ShapeOk(GetStr(m.admin_email_address, Unset))
    /\ \A i \in DOMAIN m.admin_ip_addresses : ShapeOk(m.admin_ip_addresses[i])
    /\ LET fqdn == GetStr(m.fqdn, Unset) IN IsStr(fqdn) /\ Truthy(fqdn)
    /\ LET name == GetStr(m.name, Unset) IN IsStr(name) /\ Truthy(name)
    /\ ShapeOk(GetStr(m.timezone, Unset))

RemoteDesktopValid(r) ==
    /\ IsBool(GetBool(r.allow_copy, Unset))
    /\ IsBool(GetBool(r.allow_paste, Unset))

SreValid(e) ==
    /\ \A i \in DOMAIN e.data_provider_ip_addresses :
           ShapeOk(e.data_provider_ip_addresses[i])
    /\ RemoteDesktopValid(e.remote_desktop)
    /\ \A k \in DOMAIN e.research_desktops : ShapeOk(e.research_desktops[k].sku)
    /\ \A i \in DOMAIN e.research_user_ip_addresses :
           ShapeOk(e.research_user_ip_addresses[i])

TagsValid(t) == Truthy(t.deployment)

(***************************************************************************)
(* to_dict() of each section: chili.encode reads every field through the   *)
(* descriptor; EncoderTypeChecked.encode returns what it is given          *)
(***************************************************************************)
AzureToDict(a) ==
    [admin_group_id |-> GetStr(a.admin_group_id, Unset),
     location |-> GetStr(a.location, Unset),
     subscription_id |-> GetStr(a.subscription_id, Unset),
     tenant_id |-> GetStr(a.tenant_id, Unset)]

BackendToDict(b) ==
    [key_vault_name |-> GetStr(b.key_vault_name, Unset),
     managed_identity_name |-> GetStr(b.managed_identity_name, Unset),
     resource_group_name |-> GetStr(b.resource_group_name, Unset),
     storage_account_name |-> GetStr(b.storage_account_name, Unset),
     storage_container_name |-> GetStr(b.storage_container_name, Unset)]

PulumiToDict(p) ==
    [encryption_key_id |-> GetStr(p.encryption_key_id, Unset),
     encryption_key_name |-> GetStr(p.encryption_key_name, "pulumi-encryption-key"),
     stacks |-> p.stacks,
     storage_container_name |-> GetStr(p.storage_container_name, "pulumi")]

ShmToDict(m) ==
    [aad_tenant_id |-> GetStr(m.aad_tenant_id, Unset),
     admin_email_address |-> GetStr(m.admin_email_address, Unset),
     admin_ip_addresses |-> m.admin_ip_addresses,
     fqdn |-> GetStr(m.fqdn, Unset),
     name |-> GetStr(m.name, Unset),
     timezone |-> GetStr(m.timezone, Unset)]

SreToDict(e) ==
    [data_provider_ip_addresses |-> e.data_provider_ip_addresses,
     index |-> e.index,
     remote_desktop |->
         [allow_copy |-> GetBool(e.remote_desktop.allow_copy, Unset),
          allow_paste |-> GetBool(e.remote_desktop.allow_paste, Unset)],
     research_desktops |-> e.research_desktops,
     research_user_ip_addresses |-> e.research_user_ip_addresses,
     software_packages |-> e.software_packages]

TagsToDict(t) ==
    [deployment |-> t.deployment, deployed_by |-> t.deployed_by,
     project |-> t.project, version |-> t.version]

(***************************************************************************)
(* chili.decode of each section mapping: every field is stored through     *)
(* TypeChecked.__set__.  ...DecodeOk is FALSE when a store raises.         *)
(***************************************************************************)
AzureDecodeOk(d) ==
    /\ StrSetOk(d.admin_group_id) /\ StrSetOk(d.location)
    /\ StrSetOk(d.subscription_id) /\ StrSetOk(d.tenant_id)

AzureDecode(d) ==
    [admin_group_id |-> d.admin_group_id, location |-> d.location,
     subscription_id |-> d.subscription_id, tenant_id |-> d.tenant_id]

BackendDecodeOk(d) ==
    /\ StrSetOk(d.key_vault_name) /\ StrSetOk(d.managed_identity_name)
    /\ StrSetOk(d.resource_group_name) /\ StrSetOk(d.storage_account_name)
    /\ StrSetOk(d.storage_container_name)

BackendDecode(d) ==
    [key_vault_name |-> d.key_vault_name,
     managed_identity_name |-> d.managed_identity_name,
     resource_group_name |-> d.resource_group_name,
     storage_account_name |-> d.storage_account_name,
     storage_container_name |-> d.storage_container_name]

PulumiDecodeOk(d) ==
    /\ StrSetOk(d.encryption_key_id) /\ StrSetOk(d.encryption_key_name)
    /\ StrSetOk(d.storage_container_name)

PulumiDecode(d) ==
    [encryption_key_id |-> d.encryption_key_id,
     encryption_key_name |-> d.encryption_key_name,
     stacks |-> d.stacks,
     storage_container_name |-> d.storage_container_name]

ShmDecodeOk(d) ==
    /\ StrSetOk(d.aad_tenant_id) /\ StrSetOk(d.admin_email_address)
    /\ StrSetOk(d.fqdn) /\ StrSetOk(d.name) /\ StrSetOk(d.timezone)

ShmDecode(d) ==
    [aad_tenant_id |-> d.aad_tenant_id,
     admin_email_address |-> d.admin_email_address,
     admin_ip_addresses |-> d.admin_ip_addresses,
     fqdn |-> d.fqdn, name |-> d.name, timezone |-> d.timezone]

SreDecodeOk(d) ==
    /\ d.index \in Int
    /\ BoolSetOk(d.remote_desktop.allow_copy)
    /\ BoolSetOk(d.remote_desktop.allow_paste)

SreDecode(d) ==
    [data_provider_ip_addresses |-> d.data_provider_ip_addresses,
     index |-> d.index,
     remote_desktop |->
         [allow_copy |-> d.remote_desktop.allow_copy,
          allow_paste |-> d.remote_desktop.allow_paste],
     research_desktops |-> d.research_desktops,
     research_user_ip_addresses |-> d.research_user_ip_addresses,
     software_packages |-> d.software_packages]

(***************************************************************************)
(* The document: Config                                                    *)
(***************************************************************************)
\* mappings keyed by name (sres, stacks, YAML mappings)
EmptyMap == <<>>
MapPut(m, k, v) == [x \in DOMAIN m \cup {k} |-> IF x = k THEN v ELSE m[x]]
MapDel(m, k) == [x \in DOMAIN m \ {k} |-> m[x]]

\* Config.__init__, lines 321-326: no section, no SRE
EmptyConfig ==
    [azure |-> None, backend |-> None, pulumi |-> None, shm |-> None,
     tags |-> None, sres |-> EmptyMap]

\* the values BackendSettings supplies for location and admin_group_id
SettingsLocation == "good"
SettingsAdminGroupId == "good"

\* a constructor that forgets the backend settings
FreshConfigNoSettings == EmptyConfig

\* Config.__init__, lines 331-332: the azure accessor creates the section and
\* the two settings are stored in it
FreshConfig ==
    [EmptyConfig EXCEPT !.azure =
        Some([AzureDefault EXCEPT !.location = SettingsLocation,
                                  !.admin_group_id = SettingsAdminGroupId])]

\* the section accessors: create on first access
AccessAzure(c) == IF IsSome(c.azure) THEN c ELSE [c EXCEPT !.azure = Some(AzureDefault)]
AccessBackend(c) == IF IsSome(c.backend) THEN c ELSE [c EXCEPT !.backend = Some(BackendDerived)]
AccessPulumi(c) == IF IsSome(c.pulumi) THEN c ELSE [c EXCEPT !.pulumi = Some(PulumiDefault)]
AccessShm(c) == IF IsSome(c.shm) THEN c ELSE [c EXCEPT !.shm = Some(ShmDefault)]
AccessTags(c) == IF IsSome(c.tags) THEN c ELSE [c EXCEPT !.tags = Some(TagsDefault)]

(***************************************************************************)
(* Config.__str__                                                          *)
(***************************************************************************)
\* the to_dict() calls made before the tags accessor is reached all return
StrSectionsValid(c) ==
    /\ IsSome(c.azure) => AzureValid(Val(c.azure))
    /\ IsSome(c.backend) => BackendValid(Val(c.backend))
    /\ IsSome(c.pulumi) => PulumiValid(Val(c.pulumi))
    /\ IsSome(c.shm) => ShmValid(Val(c.shm))
    /\ \A n \in DOMAIN c.sres : SreValid(c.sres[n])

\* str(config) returns (no to_dict() raises ValueError)
StrOk(c) == StrSectionsValid(c) /\ TagsValid(Val(AccessTags(c).tags))

\* the document after str(config): "if self.tags" goes through the accessor
StrEffect(c) == IF StrSectionsValid(c) THEN AccessTags(c) ELSE c

StrKeys(c) ==
    (IF IsSome(c.azure) THEN {"azure"} ELSE {})
    \cup (IF IsSome(c.backend) THEN {"backend"} ELSE {})
    \cup (IF IsSome(c.pulumi) THEN {"pulumi"} ELSE {})
    \cup (IF IsSome(c.shm) THEN {"shm"} ELSE {})
    \cup (IF DOMAIN c.sres # {} THEN {"sre"} ELSE {})
    \cup {"tags"}

\* the mapping that yaml.dump writes
StrContents(c) ==
    [k \in StrKeys(c) |->
        CASE k = "azure" -> AzureToDict(Val(c.azure))
          [] k = "backend" -> BackendToDict(Val(c.backend))
          [] k = "pulumi" -> PulumiToDict(Val(c.pulumi))
          [] k = "shm" -> ShmToDict(Val(c.shm))
          [] k = "sre" -> [n \in DOMAIN c.sres |-> SreToDict(c.sres[n])]
          [] k = "tags" -> TagsToDict(Val(AccessTags(c).tags))]

(***************************************************************************)
(* Config.is_complete(require_sres): every required top-level section is   *)
(* present and valid and, when require_sres, so is at least one SRE        *)
(***************************************************************************)
\* is_complete() without the flag: SREs are never asked for
IsCompleteNoFlag(c, require_sres) ==
    /\ IsSome(c.azure) /\ AzureValid(Val(c.azure))
    /\ IsSome(c.shm) /\ ShmValid(Val(c.shm))

IsComplete(c, require_sres) ==
    /\ IsSome(c.azure) /\ AzureValid(Val(c.azure))
    /\ IsSome(c.shm) /\ ShmValid(Val(c.shm))
    /\ require_sres => \E n \in DOMAIN c.sres : SreValid(c.sres[n])

(***************************************************************************)
(* Config.template(): a document whose every field holds a human-readable  *)
(* placeholder string, built without validation                            *)
(***************************************************************************)
\* a placeholder that happens to have the shape of every field
PlaceholderShaped == "good"

\* a placeholder such as "Azure subscription ID": a string of no field's shape
Placeholder == "junk"

Template ==
    [EmptyConfig EXCEPT
        !.azure = Some([admin_group_id |-> Placeholder, location |-> Placeholder,
                        subscription_id |-> Placeholder, tenant_id |-> Placeholder]),
        !.shm = Some([aad_tenant_id |-> Placeholder,
                      admin_email_address |-> Placeholder,
                      admin_ip_addresses |-> <<Placeholder>>,
                      fqdn |-> Placeholder, name |-> Placeholder,
                      timezone |-> Placeholder])]

(***************************************************************************)
(* The remote blob                                                         *)
(***************************************************************************)
\* the blob does not exist: download_blob raises DataSafeHavenAzureError
BlobNotFound == [status |-> "DataSafeHavenAzureError", data |-> EmptyMap]
\* yaml.safe_load raises ParserError
BlobUnparsable == [status |-> "ParserError", data |-> EmptyMap]
\* a text that loads to the mapping data
BlobText(data) == [status |-> "ok", data |-> data]

(***************************************************************************)
(* Config.__init__: download and decode                                    *)
(***************************************************************************)
\* line 345: the exceptions the download block suppresses
SuppressedOnlyAzure == {"DataSafeHavenAzureError"}

Suppressed == {"DataSafeHavenAzureError", "ParserError"}

\* lines 344-353: a suppressed exception leaves yaml_input = {}
YamlInput(b) == IF b.status = "ok" THEN b.data ELSE EmptyMap

\* lines 355-378: no chili.decode raises
DecodeOk(y) ==
    /\ "azure" \in DOMAIN y => AzureDecodeOk(y["azure"])
    /\ "backend" \in DOMAIN y => BackendDecodeOk(y["backend"])
    /\ "pulumi" \in DOMAIN y => PulumiDecodeOk(y["pulumi"])
    /\ "shm" \in DOMAIN y => ShmDecodeOk(y["shm"])
    /\ "sre" \in DOMAIN y => \A n \in DOMAIN y["sre"] : SreDecodeOk(y["sre"][n])

\* lines 355-378: the sections decoded into the freshly constructed document
Decoded(y) ==
    [azure |-> IF "azure" \in DOMAIN y THEN Some(AzureDecode(y["azure"]))
               ELSE FreshConfig.azure,
     backend |-> IF "backend" \in DOMAIN y THEN Some(BackendDecode(y["backend"]))
                 ELSE None,
     pulumi |-> IF "pulumi" \in DOMAIN y THEN Some(PulumiDecode(y["pulumi"]))
                ELSE None,
     shm |-> IF "shm" \in DOMAIN y THEN Some(ShmDecode(y["shm"])) ELSE None,
     tags |-> None,
     sres |-> IF "sre" \in DOMAIN y
              THEN [n \in DOMAIN y["sre"] |-> SreDecode(y["sre"][n])]
              ELSE EmptyMap]

\* a constructor that also swallows what chili.decode raises
ConstructLenient(b) ==
    LET y == YamlInput(b)
    IN  IF b.status # "ok" /\ b.status \notin Suppressed
        THEN [out |-> b.status, doc |-> EmptyConfig]
        ELSE IF DecodeOk(y)
        THEN [out |-> "ok", doc |-> Decoded(y)]
        ELSE [out |-> "ok", doc |-> FreshConfig]

\* the outcome of Config(): the document, or the exception that left none
Construct(b) ==
    LET y == YamlInput(b)
    IN  IF b.status # "ok" /\ b.status \notin Suppressed
        THEN [out |-> b.status, doc |-> EmptyConfig]
        ELSE IF DecodeOk(y)
        THEN [out |-> "ok", doc |-> Decoded(y)]
        ELSE [out |-> "DataSafeHavenParameterError", doc |-> EmptyConfig]

(***************************************************************************)
(* Blobs the store may hold when the first session starts                  *)
(***************************************************************************)
ValidAzureDict ==
    [admin_group_id |-> "good", location |-> "good",
     subscription_id |-> "good", tenant_id |-> "good"]

ValidSreDict(i) ==
    [SreToDict(SreDefault) EXCEPT
        !.index = i,
        !.remote_desktop = [allow_copy |-> "False", allow_paste |-> "False"]]

\* a document uploaded earlier: one SRE deployed
BlobDeployed ==
    BlobText([azure |-> ValidAzureDict,
              sre |-> [n \in {"sre1"} |-> ValidSreDict(1)],
              tags |-> TagsToDict(TagsDefault)])

\* a document uploaded before any SRE was deployed
BlobShmOnly ==
    BlobText([azure |-> ValidAzureDict, tags |-> TagsToDict(TagsDefault)])

\* a mapping whose azure section has an integer where a string belongs
BlobBadField ==
    BlobText([azure |-> [ValidAzureDict EXCEPT !.location = NonStr],
              tags |-> TagsToDict(TagsDefault)])

InitialBlobs ==
    {BlobNotFound, BlobUnparsable, BlobText(EmptyMap), BlobBadField,
     BlobShmOnly, BlobDeployed}

ValidShmDict ==
    [aad_tenant_id |-> "good", admin_email_address |-> "good",
     admin_ip_addresses |-> <<"good">>, fqdn |-> "good", name |-> ShmName,
     timezone |-> "good"]

\* a document with the azure and shm sections filled in and no SRE
BlobShmComplete ==
    BlobText([azure |-> ValidAzureDict, shm |-> ValidShmDict,
              tags |-> TagsToDict(TagsDefault)])

\* the same with one SRE deployed
BlobSreComplete ==
    BlobText([azure |-> ValidAzureDict, shm |-> ValidShmDict,
              sre |-> [n \in {"sre1"} |-> ValidSreDict(1)],
              tags |-> TagsToDict(TagsDefault)])

\* an shm section whose timezone is a string that names no timezone
BlobShmMalformed ==
    BlobText([azure |-> ValidAzureDict,
              shm |-> [ValidShmDict EXCEPT !.timezone = "junk"],
              tags |-> TagsToDict(TagsDefault)])

\* a mapping with a top-level key that Config.__init__ does not look for,
\* and without the azure key
BlobUnknownKey ==
    BlobText([shm |-> ValidShmDict, extra |-> [anything |-> "good"]])

\* a mapping with the backend and pulumi sections a session wrote earlier
BlobAllSections ==
    BlobText([azure |-> ValidAzureDict,
              backend |-> BackendToDict(BackendDerived),
              pulumi |-> [PulumiToDict(PulumiDefault) EXCEPT !.encryption_key_id = "good"],
              shm |-> ValidShmDict,
              sre |-> [n \in {"sre1"} |-> ValidSreDict(1)],
              tags |-> TagsToDict(TagsDefault)])

DecodeBlobs ==
    {BlobNotFound, BlobShmOnly, BlobShmComplete, BlobSreComplete,
     BlobShmMalformed, BlobUnknownKey, BlobAllSections}

(***************************************************************************)
(* The context registry (ContextManager): the selected key, if any, and    *)
(* the contexts by key                                                     *)
(***************************************************************************)
ContextKeys == {"acmedeployment", "gems"}

Context(name, subscription_name) ==
    [name |-> name, admin_group_id |-> "good", location |-> "good",
     subscription_name |-> subscription_name]

\* the registry of the test fixture: two contexts, the first selected
RegistryFixture ==
    [selected |-> Some("acmedeployment"),
     contexts |-> [k \in ContextKeys |->
                      IF k = "acmedeployment"
                      THEN Context("Acme Deployment", "Data Safe Haven Acme")
                      ELSE Context("Gems", "Data Safe Haven Gems")]]

(***************************************************************************)
(* State                                                                   *)
(***************************************************************************)
\* the record of the last call: the operation, the session, the name passed,
\* whether that name was in the mapping before the call, the exception (or
\* "ok") and the index returned by sre(); operations that take or return
\* something else say what they keep in known and ret
Call(op, s, name, known, out, ret) ==
    [op |-> op, s |-> s, name |-> name, known |-> known, out |-> out, ret |-> ret]

Indices(c) == {c.sres[n].index : n \in DOMAIN c.sres}

Init ==
    /\ blob \in InitialBlobs
    /\ cfg = [s \in Sessions |-> None]
    /\ last = Call("none", 0, "", FALSE, "ok", 0)
    /\ assigned = [s \in Sessions |-> {}]
    /\ reg = RegistryFixture

(***************************************************************************)
(* Operations                                                              *)
(***************************************************************************)
\* config = Config()
Load(s) ==
    LET r == Construct(blob)
    IN  /\ cfg' = [cfg EXCEPT ![s] = IF r.out = "ok" THEN Some(r.doc) ELSE None]
        /\ assigned' = [assigned EXCEPT ![s] = Indices(r.doc)]
        /\ last' = Call("load", s, "", FALSE, r.out, 0)
        /\ UNCHANGED <<blob, reg>>

\* sre() numbering a new section by the number of sections
SreEffectByCount(c, name) ==
    IF name \notin DOMAIN c.sres
    THEN [c EXCEPT !.sres =
             MapPut(c.sres, name,
                    [SreDefault EXCEPT !.index = Cardinality(DOMAIN c.sres) + 1])]
    ELSE c

\* sre() giving a new section the lowest index no section holds
SreEffectFirstFree(c, name) ==
    IF name \notin DOMAIN c.sres
    THEN LET free == CHOOSE i \in 1..(Cardinality(DOMAIN c.sres) + 1) :
                        /\ i \notin {c.sres[n].index : n \in DOMAIN c.sres}
                        /\ \A j \in 1..(i - 1) :
                               j \in {c.sres[n].index : n \in DOMAIN c.sres}
         IN  [c EXCEPT !.sres = MapPut(c.sres, name, [SreDefault EXCEPT !.index = free])]
    ELSE c

\* sre() without the membership test: every call numbers the section anew
SreEffectRenumber(c, name) ==
    LET highest_index == SetMax({0} \cup {c.sres[n].index : n \in DOMAIN c.sres})
    IN  [c EXCEPT !.sres =
            MapPut(c.sres, name,
                   [(IF name \in DOMAIN c.sres THEN c.sres[name] ELSE SreDefault)
                        EXCEPT !.index = highest_index + 1])]

\* Config.sre: the document after the call
SreEffect(c, name) ==
    IF name \notin DOMAIN c.sres
    THEN LET highest_index == SetMax({0} \cup Indices(c))
         IN  [c EXCEPT !.sres =
                 MapPut(c.sres, name, [SreDefault EXCEPT !.index = highest_index + 1])]
    ELSE c

\* config.sre(name)
Sre(s, name) ==
    /\ IsSome(cfg[s])
    /\ LET c == Val(cfg[s])
           d == SreEffect(c, name)
       IN  /\ d.sres[name].index <= MaxIndex
           /\ cfg' = [cfg EXCEPT ![s] = Some(d)]
           /\ assigned' = [assigned EXCEPT ![s] = @ \cup {d.sres[name].index}]
           /\ last' = Call("sre", s, name, name \in DOMAIN c.sres, "ok",
                           d.sres[name].index)
    /\ UNCHANGED <<blob, reg>>

\* Config.remove_sre: the document after the call
RemoveSreEffect(c, name) ==
    IF name \in DOMAIN c.sres THEN [c EXCEPT !.sres = MapDel(c.sres, name)] ELSE c

\* config.remove_sre(name)
RemoveSre(s, name) ==
    /\ IsSome(cfg[s])
    /\ LET c == Val(cfg[s])
       IN  /\ cfg' = [cfg EXCEPT ![s] = Some(RemoveSreEffect(c, name))]
           /\ last' = Call("remove_sre", s, name, name \in DOMAIN c.sres, "ok", 0)
    /\ UNCHANGED <<blob, assigned, reg>>

\* Config.read_stack: the document after the call
ReadStackEffect(c, name) ==
    LET p == AccessPulumi(c)
    IN  [p EXCEPT !.pulumi = Some([Val(p.pulumi) EXCEPT
                                      !.stacks = MapPut(@, name, "b64")])]

\* config.read_stack(name, path)
ReadStack(s, name) ==
    /\ IsSome(cfg[s])
    /\ LET c == Val(cfg[s])
       IN  /\ cfg' = [cfg EXCEPT ![s] = Some(ReadStackEffect(c, name))]
           /\ last' = Call("read_stack", s, name,
                           IsSome(c.pulumi) /\ name \in DOMAIN Val(c.pulumi).stacks,
                           "ok", 0)
    /\ UNCHANGED <<blob, assigned, reg>>

\* Config.remove_stack: the document after the call
RemoveStackEffect(c, name) ==
    LET p == AccessPulumi(c)
    IN  IF name \in DOMAIN Val(p.pulumi).stacks
        THEN [p EXCEPT !.pulumi = Some([Val(p.pulumi) EXCEPT
                                           !.stacks = MapDel(@, name)])]
        ELSE p

\* config.remove_stack(name)
RemoveStack(s, name) ==
    /\ IsSome(cfg[s])
    /\ LET c == Val(cfg[s])
       IN  /\ cfg' = [cfg EXCEPT ![s] = Some(RemoveStackEffect(c, name))]
           /\ last' = Call("remove_stack", s, name,
                           IsSome(c.pulumi) /\ name \in DOMAIN Val(c.pulumi).stacks,
                           "ok", 0)
    /\ UNCHANGED <<blob, assigned, reg>>

\* an upload that writes only when the store holds no document yet
UploadBlobIfAbsent(b, c) ==
    IF StrOk(c) /\ b.status # "ok" THEN BlobText(StrContents(c)) ELSE b

\* an upload that writes whatever the present sections hold
UploadBlobUnchecked(b, c) == BlobText(StrContents(c))

\* Config.upload: the blob after the call; str(self) is evaluated first, and
\* when it raises upload_blob is never called
UploadBlob(b, c) == IF StrOk(c) THEN BlobText(StrContents(c)) ELSE b

\* config.upload()
Upload(s) ==
    /\ IsSome(cfg[s])
    /\ LET c == Val(cfg[s])
       IN  /\ cfg' = [cfg EXCEPT ![s] = Some(StrEffect(c))]
           /\ blob' = UploadBlob(blob, c)
           /\ last' = Call("upload", s, "", FALSE,
                           IF StrOk(c) THEN "ok" ELSE "ValueError", 0)
    /\ UNCHANGED <<assigned, reg>>

\* config.azure.subscription_id = value, config.azure.tenant_id = value
AzureWritable == {"subscription_id", "tenant_id"}

WriteAzure(s, f, v) ==
    /\ IsSome(cfg[s])
    /\ LET c == AccessAzure(Val(cfg[s]))
       IN  /\ cfg' = [cfg EXCEPT ![s] =
                 IF StrSetOk(v)
                 THEN Some([c EXCEPT !.azure = Some([Val(c.azure) EXCEPT ![f] = v])])
                 ELSE Some(c)]
           /\ last' = Call("write_azure", s, f, FALSE,
                           IF StrSetOk(v) THEN "ok" ELSE "DataSafeHavenParameterError", 0)
    /\ UNCHANGED <<blob, assigned, reg>>

\* sre.remote_desktop.allow_copy = value, sre.remote_desktop.allow_paste = value
\* on the section sre(name) returned
WriteRemoteDesktop(s, name, copy, paste) ==
    /\ IsSome(cfg[s])
    /\ name \in DOMAIN Val(cfg[s]).sres
    /\ LET c == Val(cfg[s])
       IN  /\ cfg' = [cfg EXCEPT ![s] =
                 Some([c EXCEPT !.sres[name].remote_desktop =
                          [allow_copy |-> copy, allow_paste |-> paste]])]
           /\ last' = Call("write_remote_desktop", s, name, TRUE, "ok", 0)
    /\ UNCHANGED <<blob, assigned, reg>>

\* config.backend, config.pulumi, config.shm, config.tags: a read of the
\* section through its accessor
SectionKeys == {"azure", "backend", "pulumi", "shm", "tags"}

AccessEffect(c, k) ==
    CASE k = "azure" -> AccessAzure(c)
      [] k = "backend" -> AccessBackend(c)
      [] k = "pulumi" -> AccessPulumi(c)
      [] k = "shm" -> AccessShm(c)
      [] k = "tags" -> AccessTags(c)

Access(s, k) ==
    /\ IsSome(cfg[s])
    /\ LET c == Val(cfg[s])
       IN  /\ cfg' = [cfg EXCEPT ![s] = Some(AccessEffect(c, k))]
           /\ last' = Call("access", s, k, IsSome(c[k]), "ok", 0)
    /\ UNCHANGED <<blob, assigned, reg>>

\* config.is_complete(require_sres); the record keeps the flag as known and
\* the answer as ret
IsCompleteCall(s, require_sres) ==
    /\ IsSome(cfg[s])
    /\ last' = Call("is_complete", s, "", require_sres, "ok",
                    IsComplete(Val(cfg[s]), require_sres))
    /\ UNCHANGED <<blob, cfg, assigned, reg>>

\* config = Config.template()
TemplateCall(s) ==
    /\ cfg' = [cfg EXCEPT ![s] = Some(Template)]
    /\ assigned' = [assigned EXCEPT ![s] = {}]
    /\ last' = Call("template", s, "", FALSE, "ok", 0)
    /\ UNCHANGED <<blob, reg>>

(***************************************************************************)
(* Sections as a caller constructs them, field by field                    *)
(***************************************************************************)
\* what a TypeChecked[str] field can hold after construction: nothing (the
\* descriptor), the empty string, a string of the field's shape, another
\* string
FieldInputs == {Unset, "", "good", "junk"}

\* the string fields of each section
StrFields(k) ==
    CASE k = "azure" -> {"admin_group_id", "location", "subscription_id", "tenant_id"}
      [] k = "backend" -> {"key_vault_name", "managed_identity_name",
                           "resource_group_name", "storage_account_name",
                           "storage_container_name"}
      [] k = "pulumi" -> {"encryption_key_id", "encryption_key_name",
                          "storage_container_name"}
      [] k = "shm" -> {"aad_tenant_id", "admin_email_address", "fqdn", "name",
                       "timezone"}
      [] k = "tags" -> {"deployment"}

\* a document in which every section is present and valid
ValidDoc ==
    [azure |-> Some(AzureDecode(ValidAzureDict)),
     backend |-> Some(BackendDerived),
     pulumi |-> Some([PulumiDefault EXCEPT !.encryption_key_id = "good"]),
     shm |-> Some(ShmDecode(ValidShmDict)),
     tags |-> Some(TagsDefault),
     sres |-> [n \in {"sre1"} |-> SreDecode(ValidSreDict(1))]]

\* ConfigSectionX(field=value): the valid document with one field of one
\* section constructed differently (tags fields are plain strings)
SectionDocs ==
    UNION {{[ValidDoc EXCEPT ![k] = Some([Val(@) EXCEPT ![f] = v])] :
                f \in StrFields(k), v \in FieldInputs} :
            k \in {"azure", "backend", "pulumi", "shm"}}
    \cup {[ValidDoc EXCEPT !.tags = Some([Val(@) EXCEPT !.deployment = v])] :
            v \in {"", "good"}}
    \cup {[ValidDoc EXCEPT !.sres["sre1"].remote_desktop.allow_copy = v] :
            v \in {Unset, "True"}}

\* the section stored under a top-level key or under an SRE name
SectionPresent(c, k) == IF k \in SectionKeys THEN IsSome(c[k]) ELSE k \in DOMAIN c.sres
SectionOf(c, k) == IF k \in SectionKeys THEN Val(c[k]) ELSE c.sres[k]

\* section.validate() returns
SectionValid(k, sec) ==
    CASE k = "azure" -> AzureValid(sec)
      [] k = "backend" -> BackendValid(sec)
      [] k = "pulumi" -> PulumiValid(sec)
      [] k = "shm" -> ShmValid(sec)
      [] k = "tags" -> TagsValid(sec)
      [] OTHER -> SreValid(sec)

\* the mapping chili.encode builds
SectionEncode(k, sec) ==
    CASE k = "azure" -> AzureToDict(sec)
      [] k = "backend" -> BackendToDict(sec)
      [] k = "pulumi" -> PulumiToDict(sec)
      [] k = "shm" -> ShmToDict(sec)
      [] k = "tags" -> TagsToDict(sec)
      [] OTHER -> SreToDict(sec)

\* section.to_dict(): validate() first, then encode
SectionToDict(k, sec) ==
    IF SectionValid(k, sec)
    THEN [out |-> "ok", ret |-> SectionEncode(k, sec)]
    ELSE [out |-> "ValueError", ret |-> EmptyMap]

\* section.to_dict() on a section of the document; the record keeps whether
\* validate() returned as known and the mapping as ret
ToDictCall(s, k) ==
    /\ IsSome(cfg[s])
    /\ SectionPresent(Val(cfg[s]), k)
    /\ LET sec == SectionOf(Val(cfg[s]), k)
           r == SectionToDict(k, sec)
       IN  last' = Call("to_dict", s, k, SectionValid(k, sec), r.out, r.ret)
    /\ UNCHANGED <<blob, cfg, assigned, reg>>

(***************************************************************************)
(* Validated fields written and read one at a time (the pulumi section has *)
(* TypeChecked[str] fields with and without a default)                     *)
(***************************************************************************)
PulumiFields == {"encryption_key_id", "encryption_key_name"}

\* the default given to TypeChecked[str](default=...), Unset when none is
PulumiFieldDefault(f) ==
    IF f = "encryption_key_name" THEN "pulumi-encryption-key" ELSE Unset

\* what a caller may assign: strings, an integer, a TypeChecked instance
WriteInputs == {"", "good", NonStr, Unset}

\* config.pulumi.<f> = v; the record keeps the value passed and, when
\* __set__ raised, the message
WritePulumi(s, f, v) ==
    /\ IsSome(cfg[s])
    /\ LET c == AccessPulumi(Val(cfg[s]))
       IN  /\ cfg' = [cfg EXCEPT ![s] =
                 IF StrSetOk(v)
                 THEN Some([c EXCEPT !.pulumi = Some([Val(c.pulumi) EXCEPT ![f] = v])])
                 ELSE Some(c)]
           /\ last' = Call("write_pulumi", s, f, FALSE,
                           IF StrSetOk(v) THEN "ok" ELSE "DataSafeHavenParameterError",
                           [value |-> v,
                            msg |-> IF StrSetOk(v) THEN <<>> ELSE CheckTypeMessage(f, v)])
    /\ UNCHANGED <<blob, assigned, reg>>

\* config.pulumi.<f>; the record keeps the value read as ret
ReadPulumi(s, f) ==
    /\ IsSome(cfg[s])
    /\ LET c == AccessPulumi(Val(cfg[s]))
       IN  /\ cfg' = [cfg EXCEPT ![s] = Some(c)]
           /\ last' = Call("read_pulumi", s, f, FALSE, "ok",
                           GetStr(Val(c.pulumi)[f], PulumiFieldDefault(f)))
    /\ UNCHANGED <<blob, assigned, reg>>

(***************************************************************************)
(* ConfigSectionSRE.set_research_desktops                                  *)
(***************************************************************************)
\* Azure VM sizes; no SKU has the form of a workspace key
Skus == {"Standard_D2s_v4", "Standard_D8s_v4"}

SkuLists == UNION {[1..n -> Skus] : n \in 0..MaxSkus}

Digit == <<"0", "1", "2", "3", "4", "5", "6", "7", "8", "9">>

\* f"workspace-{idx:02d}"
WorkspaceKey(idx) == "workspace-" \o Digit[(idx \div 10) + 1] \o Digit[(idx % 10) + 1]

\* sorted(research_desktops) == sorted(keys): the list is a rearrangement of
\* the keys (keys of a dict are distinct)
SortedEqual(list, keys) ==
    /\ Len(list) = Cardinality(keys)
    /\ {list[i] : i \in DOMAIN list} = keys

\* the dict built by the loop: enumerate() counts from 0
Enumerated(list) ==
    [k \in {WorkspaceKey(i - 1) : i \in DOMAIN list} |->
        [sku |-> list[CHOOSE i \in DOMAIN list : WorkspaceKey(i - 1) = k]]]

\* set_research_desktops without the clear(): entries are only overwritten
SetResearchDesktopsNoClear(e, research_desktops) ==
    IF ~SortedEqual(research_desktops, DOMAIN e.research_desktops)
    THEN [e EXCEPT !.research_desktops =
             [k \in DOMAIN @ \cup DOMAIN Enumerated(research_desktops) |->
                 IF k \in DOMAIN Enumerated(research_desktops)
                 THEN Enumerated(research_desktops)[k] ELSE @[k]]]
    ELSE e

\* the section after set_research_desktops(research_desktops): the list is
\* compared with the keys of the dict
SetResearchDesktopsEffect(e, research_desktops) ==
    IF ~SortedEqual(research_desktops, DOMAIN e.research_desktops)
    THEN [e EXCEPT !.research_desktops = Enumerated(research_desktops)]
    ELSE e

\* config.sre(name).set_research_desktops(skus) on a section of the
\* document; the record keeps the list as ret
SetResearchDesktops(s, name, research_desktops) ==
    /\ IsSome(cfg[s])
    /\ name \in DOMAIN Val(cfg[s]).sres
    /\ LET c == Val(cfg[s])
       IN  /\ cfg' = [cfg EXCEPT ![s] =
                 Some([c EXCEPT !.sres[name] =
                          SetResearchDesktopsEffect(@, research_desktops)])]
           /\ last' = Call("set_research_desktops", s, name, TRUE, "ok",
                           research_desktops)
    /\ UNCHANGED <<blob, assigned, reg>>

(***************************************************************************)
(* Config.to_yaml() and Config.from_yaml(): the whole document as text and *)
(* back, every present section and the SRE mapping                         *)
(***************************************************************************)
\* the keys to_yaml writes: the sections that are present
YamlKeys(c) ==
    {k \in SectionKeys : IsSome(c[k])}
    \cup (IF DOMAIN c.sres # {} THEN {"sre"} ELSE {})

\* to_yaml(): no validation, so that a template can be written out
ToYaml(c) ==
    [k \in YamlKeys(c) |->
        IF k = "sre" THEN [n \in DOMAIN c.sres |-> SreToDict(c.sres[n])]
        ELSE SectionEncode(k, Val(c[k]))]

\* the section a mapping decodes to
SectionDecode(k, d) ==
    CASE k = "azure" -> AzureDecode(d)
      [] k = "backend" -> BackendDecode(d)
      [] k = "pulumi" -> PulumiDecode(d)
      [] k = "shm" -> ShmDecode(d)
      [] k = "tags" -> d

YamlDecoded(y) ==
    [azure |-> IF "azure" \in DOMAIN y THEN Some(SectionDecode("azure", y["azure"])) ELSE None,
     backend |-> IF "backend" \in DOMAIN y THEN Some(SectionDecode("backend", y["backend"])) ELSE None,
     pulumi |-> IF "pulumi" \in DOMAIN y THEN Some(SectionDecode("pulumi", y["pulumi"])) ELSE None,
     shm |-> IF "shm" \in DOMAIN y THEN Some(SectionDecode("shm", y["shm"])) ELSE None,
     tags |-> IF "tags" \in DOMAIN y THEN Some(SectionDecode("tags", y["tags"])) ELSE None,
     sres |-> IF "sre" \in DOMAIN y
              THEN [n \in DOMAIN y["sre"] |-> SreDecode(y["sre"][n])]
              ELSE EmptyMap]

\* from_yaml(): decode, then validate every section that was decoded; a
\* field of the wrong type or shape raises DataSafeHavenParameterError
FromYaml(y) ==
    IF /\ DecodeOk(y)
       /\ \A k \in SectionKeys :
              IsSome(YamlDecoded(y)[k]) => SectionValid(k, Val(YamlDecoded(y)[k]))
       /\ \A n \in DOMAIN YamlDecoded(y).sres : SreValid(YamlDecoded(y).sres[n])
    THEN [out |-> "ok", doc |-> YamlDecoded(y)]
    ELSE [out |-> "DataSafeHavenParameterError", doc |-> EmptyConfig]

\* config = Config.from_yaml(config.to_yaml()); the record keeps as known
\* whether the document written out was the template
FromYamlCall(s) ==
    /\ IsSome(cfg[s])
    /\ LET c == Val(cfg[s])
           r == FromYaml(ToYaml(c))
       IN  /\ cfg' = [cfg EXCEPT ![s] = IF r.out = "ok" THEN Some(r.doc) ELSE @]
           /\ last' = Call("from_yaml", s, "", c = Template, r.out, 0)
    /\ UNCHANGED <<blob, assigned, reg>>

(***************************************************************************)
(* update(changes) of a section and of the selected context              *)
(***************************************************************************)
\* the mappings from some of the given fields to some of the given values
Changes(fields, values) == UNION {[fs -> values] : fs \in SUBSET fields}

\* an update that rebuilds the record from the changes alone: a field that
\* was not passed loses its value
UpdateRebuild(rec, changes) ==
    [f \in DOMAIN rec |-> IF f \in DOMAIN changes THEN changes[f] ELSE Unset]

\* the record after update(changes): the fields passed take the new
\* value, the others keep theirs
UpdateEffect(rec, changes) ==
    [f \in DOMAIN rec |-> IF f \in DOMAIN changes THEN changes[f] ELSE rec[f]]

\* the fields and values config.shm.update() is called with
ShmUpdateFields == {"fqdn", "timezone"}
ShmUpdateValues == {"", "good", "junk"}

\* config.shm.update(changes): the changes are applied and the section is
\* validated again; when that raises, whether the new values stay is not
\* fixed (applied); the record keeps the changes as ret
UpdateShm(s, changes, applied) ==
    /\ IsSome(cfg[s])
    /\ IsSome(Val(cfg[s]).shm)
    /\ LET c == Val(cfg[s])
           m == UpdateEffect(Val(c.shm), changes)
       IN  /\ cfg' = [cfg EXCEPT ![s] =
                 IF ShmValid(m) \/ applied THEN Some([c EXCEPT !.shm = Some(m)])
                 ELSE Some(c)]
           /\ last' = Call("update_shm", s, "shm", TRUE,
                           IF ShmValid(m) THEN "ok" ELSE "ValidationError", changes)
    /\ UNCHANGED <<blob, assigned, reg>>

\* context_manager.selected = key: None, a key of the registry, or a key
\* that is not defined
SelectInputs == {None} \cup {Some(k) : k \in ContextKeys \cup {"invalid"}}

SetSelected(o) ==
    /\ reg' = IF IsSome(o) /\ Val(o) \notin DOMAIN reg.contexts
              THEN reg ELSE [reg EXCEPT !.selected = o]
    /\ last' = Call("select", 0, IF IsSome(o) THEN Val(o) ELSE "", IsSome(o),
                    IF IsSome(o) /\ Val(o) \notin DOMAIN reg.contexts
                    THEN "DataSafeHavenParameterError" ELSE "ok", 0)
    /\ UNCHANGED <<blob, cfg, assigned>>

\* the fields and values context_manager.update() is called with
ContextUpdateFields == {"name", "subscription_name"}
ContextUpdateValues == {"replaced"}

\* context_manager.update(changes): assert_context() raises when nothing
\* is selected; the record keeps the changes as ret
UpdateContext(changes) ==
    /\ reg' = IF IsSome(reg.selected)
              THEN [reg EXCEPT !.contexts[Val(reg.selected)] = UpdateEffect(@, changes)]
              ELSE reg
    /\ last' = Call("update_context", 0, "", IsSome(reg.selected),
                    IF IsSome(reg.selected) THEN "ok" ELSE "DataSafeHavenConfigError",
                    changes)
    /\ UNCHANGED <<blob, cfg, assigned>>

\* the three derived names the backend section repeats
BackendNameFields ==
    {"resource_group_name", "storage_account_name", "storage_container_name"}

\* config.backend.resource_group_name = value (and the other two names):
\* the fields are TypeChecked[str] like any other, so a string is stored
\* and anything else is refused; the attributes upload() and the
\* constructor use are not touched
WriteBackend(s, f, v) ==
    /\ IsSome(cfg[s])
    /\ LET c == AccessBackend(Val(cfg[s]))
       IN  /\ cfg' = [cfg EXCEPT ![s] =
                 IF StrSetOk(v)
                 THEN Some([c EXCEPT !.backend = Some([Val(c.backend) EXCEPT ![f] = v])])
                 ELSE Some(c)]
           /\ last' = Call("write_backend", s, f, FALSE,
                           IF StrSetOk(v) THEN "ok" ELSE "DataSafeHavenParameterError", 0)
    /\ UNCHANGED <<blob, assigned, reg>>

(***************************************************************************)
(* Derived names: from the deployment name to the place of the blob        *)
(***************************************************************************)
\* names are sequences of characters; a deployment name holds letters,
\* digits, spaces and hyphens and starts and ends with a letter or digit
NameChars == {"a", "A", "b", " "}

IsAlnum(ch) == ch \in {"a", "A", "b", "v"}

\* str.lower() on one character
LowerChar(ch) == IF ch = "A" THEN "a" ELSE ch

Lower(str) == [i \in 1..Len(str) |-> LowerChar(str[i])]

\* alphanumeric(str): the characters that are letters or digits, in order
Alphanumeric(str) == SelectSeq(str, IsAlnum)

\* str[:n]
Prefix(str, n) == SubSeq(str, 1, IF Len(str) < n THEN Len(str) ELSE n)

\* self.shm_name_ = alphanumeric(self.name).lower()
ShmNameOf(name) == Lower(Alphanumeric(name))

\* how many characters of the short name the storage account name keeps
StorageAccountChars == 14

\* a file name cut like the storage account name
FilenameTruncated(shm_name) ==
    <<"c", "o", "n", "f", "i", "g", "-">> \o Prefix(shm_name, StorageAccountChars)
        \o <<".", "y", "a", "m", "l">>

\* self.filename = f"config-{self.shm_name_}.yaml"
Filename(shm_name) ==
    <<"c", "o", "n", "f", "i", "g", "-">> \o shm_name \o <<".", "y", "a", "m", "l">>

\* self.backend_resource_group_name = f"shm-{self.shm_name_}-rg-backend"
ResourceGroupName(shm_name) ==
    <<"s", "h", "m", "-">> \o shm_name
        \o <<"-", "r", "g", "-", "b", "a", "c", "k", "e", "n", "d">>

\* self.backend_storage_account_name = f"shm{self.shm_name_[:14]}backend"
StorageAccountName(shm_name) ==
    <<"s", "h", "m">> \o Prefix(shm_name, StorageAccountChars)
        \o <<"b", "a", "c", "k", "e", "n", "d">>

\* where download_blob and upload_blob find the document of a deployment
RemoteLocation(name) ==
    LET shm_name == ShmNameOf(name)
    IN  [filename |-> Filename(shm_name),
         resource_group_name |-> ResourceGroupName(shm_name),
         storage_account_name |-> StorageAccountName(shm_name),
         storage_container_name |-> BackendStorageContainerName]

\* a short name as long as the storage account name keeps
LongName == [i \in 1..StorageAccountChars |-> "v"]

\* the character sequences of length at most n
SeqsUpTo(n) == UNION {[1..k -> NameChars] : k \in 0..n}

MaxNameLen == 3

\* the deployment names: short ones, and ones longer than the storage
\* account name keeps
DeploymentNames ==
    {str \in SeqsUpTo(MaxNameLen) :
        Len(str) > 0 /\ IsAlnum(str[1]) /\ IsAlnum(str[Len(str)])}
    \cup {LongName \o str : str \in {tail \in SeqsUpTo(MaxNameLen) :
                                       Len(tail) = 0 \/ IsAlnum(tail[Len(tail)])}}

\* Config() under one deployment name and Config() under another: the
\* record keeps both names and where each looks for its document
Locate ==
    /\ last.op = "names"
    /\ last' = Call("locate", 0, "", last.known, "ok",
                    [names |-> last.ret.names,
                     locations |-> <<RemoteLocation(last.ret.names[1]),
                                     RemoteLocation(last.ret.names[2])>>])
    /\ UNCHANGED <<blob, cfg, assigned, reg>>

(***************************************************************************)
(* The context registry: add, remove, assert_context, from_file            *)
(***************************************************************************)
\* the key a context is stored under: the name without spaces, lower-cased
\* (add(name="Example") is selected as "example")
ContextKey(name) ==
    CASE name = "Acme Deployment" -> "acmedeployment"
      [] name = "Gems" -> "gems"
      [] name = "Example" -> "example"

\* the names add() is called with
AddNames == {"Acme Deployment", "Example"}

\* add() that overwrites a context that is already defined
RegAddOverwrite(r, name, subscription_name) ==
    [out |-> "ok",
     reg |-> [r EXCEPT !.contexts =
                 MapPut(@, ContextKey(name), Context(name, subscription_name))]]

\* add(name, subscription_name): a key that is already defined is refused
RegAdd(r, name, subscription_name) ==
    IF ContextKey(name) \in DOMAIN r.contexts
    THEN [out |-> "DataSafeHavenParameterError", reg |-> r]
    ELSE [out |-> "ok",
          reg |-> [r EXCEPT !.contexts =
                      MapPut(@, ContextKey(name), Context(name, subscription_name))]]

Add(name) ==
    /\ LET a == RegAdd(reg, name, "Data Safe Haven Example")
       IN  /\ reg' = a.reg
           /\ last' = Call("add", 0, ContextKey(name),
                           ContextKey(name) \in DOMAIN reg.contexts, a.out, 0)
    /\ UNCHANGED <<blob, cfg, assigned>>

\* remove() that leaves the selection alone
RegRemoveKeepSelected(r, key) ==
    IF key \notin DOMAIN r.contexts
    THEN [out |-> "DataSafeHavenParameterError", reg |-> r]
    ELSE [out |-> "ok", reg |-> [r EXCEPT !.contexts = MapDel(@, key)]]

\* remove() that selects one of the contexts that are left
RegRemoveAutoSelect(r, key) ==
    IF key \notin DOMAIN r.contexts
    THEN [out |-> "DataSafeHavenParameterError", reg |-> r]
    ELSE [out |-> "ok",
          reg |-> [selected |-> IF r.selected # Some(key) THEN r.selected
                                ELSE IF DOMAIN r.contexts = {key} THEN None
                                ELSE Some(CHOOSE k \in DOMAIN r.contexts : k # key),
                   contexts |-> MapDel(r.contexts, key)]]

\* remove(key): an undefined key is refused; removing the selected context
\* clears the selection
RegRemove(r, key) ==
    IF key \notin DOMAIN r.contexts
    THEN [out |-> "DataSafeHavenParameterError", reg |-> r]
    ELSE [out |-> "ok",
          reg |-> [selected |-> IF r.selected = Some(key) THEN None ELSE r.selected,
                   contexts |-> MapDel(r.contexts, key)]]

RemoveKeys == ContextKeys \cup {"example", "invalid"}

\* context_manager.remove(key); the record keeps as known whether the key
\* was the selected one
Remove(key) ==
    /\ LET a == RegRemove(reg, key)
       IN  /\ reg' = a.reg
           /\ last' = Call("remove", 0, key, reg.selected = Some(key), a.out, 0)
    /\ UNCHANGED <<blob, cfg, assigned>>

\* assert_context() that falls back on some context when none is selected
RegAssertContextAny(r) ==
    IF IsSome(r.selected) \/ DOMAIN r.contexts # {}
    THEN [out |-> "ok",
          ret |-> r.contexts[IF IsSome(r.selected) THEN Val(r.selected)
                             ELSE CHOOSE k \in DOMAIN r.contexts : TRUE]]
    ELSE [out |-> "DataSafeHavenConfigError", ret |-> "No context selected"]

\* assert_context(): the selected context, or DataSafeHavenConfigError
\* "No context selected"
RegAssertContext(r) ==
    IF IsSome(r.selected)
    THEN [out |-> "ok", ret |-> r.contexts[Val(r.selected)]]
    ELSE [out |-> "DataSafeHavenConfigError", ret |-> "No context selected"]

\* context_manager.assert_context(); the record keeps as known whether a
\* context was selected and as ret what was returned or the message
AssertContext ==
    /\ LET a == RegAssertContext(reg)
       IN  last' = Call("assert_context", 0, "", IsSome(reg.selected), a.out, a.ret)
    /\ UNCHANGED <<blob, cfg, assigned, reg>>

\* what from_file(path) may find: no file, a text that is no YAML, a YAML
\* list, a mapping with some of the keys selected and contexts
FileMissing == [kind |-> "missing", data |-> EmptyMap]
FileNotYaml == [kind |-> "unparsable", data |-> EmptyMap]
FileList == [kind |-> "list", data |-> EmptyMap]
FileMapping(data) == [kind |-> "mapping", data |-> data]

RegistryFiles ==
    {FileMissing, FileNotYaml, FileList,
     FileMapping(EmptyMap),
     FileMapping([contexts |-> RegistryFixture.contexts]),
     FileMapping([selected |-> Some("gems")]),
     FileMapping([selected |-> Some("invalid"), contexts |-> RegistryFixture.contexts]),
     FileMapping([selected |-> None, contexts |-> RegistryFixture.contexts]),
     FileMapping([selected |-> Some("gems"), contexts |-> RegistryFixture.contexts])}

\* from_file() that takes the mapping as it is
RegFromFileUnchecked(file, old) ==
    IF file.kind # "mapping"
    THEN [out |-> "DataSafeHavenConfigError", reg |-> old]
    ELSE IF DOMAIN file.data # {"selected", "contexts"}
    THEN [out |-> "DataSafeHavenParameterError", reg |-> old]
    ELSE [out |-> "ok",
          reg |-> [selected |-> file.data["selected"],
                   contexts |-> file.data["contexts"]]]

\* from_file(path): "Could not find file", "Could not parse ... as YAML"
\* and "Unable to parse ... as a dict" are configuration errors; "Could not
\* load ContextManager configuration" is a parameter error
RegFromFile(file, old) ==
    IF file.kind # "mapping"
    THEN [out |-> "DataSafeHavenConfigError", reg |-> old]
    ELSE IF \/ "selected" \notin DOMAIN file.data
            \/ "contexts" \notin DOMAIN file.data
    THEN [out |-> "DataSafeHavenParameterError", reg |-> old]
    ELSE IF /\ IsSome(file.data["selected"])
            /\ Val(file.data["selected"]) \notin DOMAIN file.data["contexts"]
    THEN [out |-> "DataSafeHavenParameterError", reg |-> old]
    ELSE [out |-> "ok",
          reg |-> [selected |-> file.data["selected"],
                   contexts |-> file.data["contexts"]]]

\* context_manager = ContextManager.from_file(path): when it raises no
\* registry is returned and the process keeps the one it had; the record
\* keeps the file as ret
FromFile(file) ==
    /\ LET a == RegFromFile(file, reg)
       IN  /\ reg' = a.reg
           /\ last' = Call("from_file", 0, file.kind, a.out = "ok", a.out, file)
    /\ UNCHANGED <<blob, cfg, assigned>>

(***************************************************************************)
(* check_merge_requests.py: one run over the open merge requests           *)
(***************************************************************************)
\* exit status codes
OK_CODE == 0
ERROR_CODE == 1

MaxVotes == 2
MaxNotes == 1

\* the notes of the discussions of a merge request
Notes == [resolvable : BOOLEAN, resolved : BOOLEAN]

NoteLists == UNION {[1..k -> Notes] : k \in 0..MaxNotes}

\* the open merge requests the review server may return, with whether
\* their projects can be fetched; user_notes_count counts the notes
MergeRequests ==
    [merge_status : {"can_be_merged", "cannot_be_merged"},
     work_in_progress : BOOLEAN,
     notes : NoteLists,
     upvotes : 0..MaxVotes,
     downvotes : {0, 1},
     details : {"ok", "HTTPError"}]

UserNotesCount(mr) == Len(mr.notes)

RECURSIVE CountNotes(_, _)
\* the loop over the notes: those that are resolvable and not resolved
CountNotes(notes, i) ==
    IF i > Len(notes) THEN 0
    ELSE (IF notes[i].resolvable /\ ~notes[i].resolved THEN 1 ELSE 0)
             + CountNotes(notes, i + 1)

\* count_unresolved_mr_discussions(mr, config)
CountUnresolvedMrDiscussions(mr) ==
    IF UserNotesCount(mr) = 0 THEN 0 ELSE CountNotes(mr.notes, 1)

\* the votes a merge request needs
MinUpvotes == 2

\* the condition under which the loop goes on to accept_merge_request: the
\* details were extracted, the status is can_be_merged, nothing is
\* unresolved, two upvotes or more, no downvote
Approved(mr) ==
    /\ mr.details = "ok"
    /\ mr.merge_status = "can_be_merged"
    /\ CountUnresolvedMrDiscussions(mr) = 0
    /\ mr.upvotes >= MinUpvotes
    /\ mr.downvotes = 0

\* what the review server may answer to the request to merge
AcceptResults == {"merged", "closed", "HTTPError"}

\* the start of a run: the secrets are loaded, the user server is asked
\* whether it responds and the open merge requests are fetched; a failure
\* of any of them ends the run with ERROR_CODE
StartRun(failure) ==
    /\ last' = Call("start_run", 0, "", FALSE, IF failure THEN "critical" ELSE "ok",
                    [return_code |-> IF failure THEN ERROR_CODE ELSE OK_CODE])
    /\ UNCHANGED <<blob, cfg, assigned, reg>>

\* what happens once accept_merge_request has been called: the answer of
\* the review server, and whether writing accepted_merge_requests.log and
\* update_repo succeed
AcceptOutcomes == [result : AcceptResults, log_ok : BOOLEAN, push_ok : BOOLEAN]

NotAccepted == [result |-> "none", log_ok |-> TRUE, push_ok |-> TRUE]

\* one pass of the loop over the merge requests of a run
CheckMergeRequest(mr) ==
    /\ \/ last.op = "start_run" /\ last.out = "ok"
       \/ last.op = "check_merge_request"
    /\ \E o \in IF Approved(mr) THEN AcceptOutcomes ELSE {NotAccepted} :
           LET approved == Approved(mr)
               merged == approved /\ o.result = "merged"
               error == \/ mr.details # "ok"
                        \/ mr.merge_status # "can_be_merged"
                        \/ (approved /\ o.result # "merged")
                        \/ (merged /\ (~o.log_ok \/ ~o.push_ok))
           IN  last' = Call("check_merge_request", 0, mr.merge_status, approved, "ok",
                            [mr |-> mr,
                             accepted |-> approved,
                             result |-> o.result,
                             logged |-> merged /\ o.log_ok,
                             pushed |-> merged,
                             return_code |-> IF error THEN ERROR_CODE
                                             ELSE last.ret.return_code])
    /\ UNCHANGED <<blob, cfg, assigned, reg>>

(***************************************************************************)
(* Specifications                                                          *)
(***************************************************************************)
\* one session working on its document
Next ==
    \E s \in {1} :
        \/ Load(s)
        \/ \E n \in SreNames : Sre(s, n)
        \/ \E n \in SreNames : RemoveSre(s, n)
        \/ \E n \in StackNames : ReadStack(s, n)
        \/ \E n \in StackNames : RemoveStack(s, n)

Spec == Init /\ [][Next]_vars

\* two sessions reading, changing and writing the same blob
NextSync ==
    \E s \in Sessions :
        \/ Load(s)
        \/ \E n \in SreNames : Sre(s, n)
        \/ \E n \in SreNames : WriteRemoteDesktop(s, n, "False", "False")
        \/ \E f \in AzureWritable, v \in {"good", NonStr} : WriteAzure(s, f, v)
        \/ Upload(s)

SpecSync == Init /\ [][NextSync]_vars

\* one session decoding a document, reading its sections and asking whether
\* it is complete
InitDecode ==
    /\ blob \in DecodeBlobs
    /\ cfg = [s \in Sessions |-> None]
    /\ last = Call("none", 0, "", FALSE, "ok", 0)
    /\ assigned = [s \in Sessions |-> {}]
    /\ reg = RegistryFixture

NextDecode ==
    \E s \in {1} :
        \/ Load(s)
        \/ TemplateCall(s)
        \/ \E n \in SreNames : Sre(s, n)
        \/ \E k \in SectionKeys : Access(s, k)
        \/ \E require_sres \in BOOLEAN : IsCompleteCall(s, require_sres)
        \/ FromYamlCall(s)

SpecDecode == InitDecode /\ [][NextDecode]_vars

\* one session holding a document whose sections a caller constructed
InitSection ==
    /\ blob = BlobNotFound
    /\ \E c \in SectionDocs : cfg = [s \in Sessions |-> IF s = 1 THEN Some(c) ELSE None]
    /\ last = Call("none", 0, "", FALSE, "ok", 0)
    /\ assigned = [s \in Sessions |-> {}]
    /\ reg = RegistryFixture

NextSection ==
    \E s \in {1} :
        \/ \E k \in SectionKeys \cup SreNames : ToDictCall(s, k)
        \/ \E f \in PulumiFields, v \in WriteInputs : WritePulumi(s, f, v)
        \/ \E f \in PulumiFields : ReadPulumi(s, f)

SpecSection == InitSection /\ [][NextSection]_vars

\* one session choosing the research desktops of its SREs
NextDesktops ==
    \E s \in {1} :
        \/ Load(s)
        \/ \E n \in SreNames : Sre(s, n)
        \/ \E n \in SreNames, skus \in SkuLists : SetResearchDesktops(s, n, skus)

SpecDesktops == Init /\ [][NextDesktops]_vars

\* one session updating the shm section of its document and the selected
\* context of the registry
InitUpdate ==
    /\ blob = BlobNotFound
    /\ cfg = [s \in Sessions |-> IF s = 1 THEN Some(ValidDoc) ELSE None]
    /\ last = Call("none", 0, "", FALSE, "ok", 0)
    /\ assigned = [s \in Sessions |-> {}]
    /\ reg = RegistryFixture

NextUpdate ==
    \/ \E changes \in Changes(ShmUpdateFields, ShmUpdateValues), applied \in BOOLEAN :
           UpdateShm(1, changes, applied)
    \/ \E o \in SelectInputs : SetSelected(o)
    \/ \E changes \in Changes(ContextUpdateFields, ContextUpdateValues) :
           UpdateContext(changes)

SpecUpdate == InitUpdate /\ [][NextUpdate]_vars

\* one process working on the context registry
InitContext ==
    /\ blob = BlobNotFound
    /\ cfg = [s \in Sessions |-> None]
    /\ last = Call("none", 0, "", FALSE, "ok", 0)
    /\ assigned = [s \in Sessions |-> {}]
    /\ reg = RegistryFixture

NextContext ==
    \/ \E o \in SelectInputs \cup {Some("example")} : SetSelected(o)
    \/ \E changes \in Changes(ContextUpdateFields, ContextUpdateValues) :
           UpdateContext(changes)
    \/ \E name \in AddNames : Add(name)
    \/ \E key \in RemoveKeys : Remove(key)
    \/ AssertContext
    \/ \E file \in RegistryFiles : FromFile(file)

SpecContext == InitContext /\ [][NextContext]_vars

\* two sessions reading the backend section, writing its names and
\* exchanging the document through the blob
InitBackend ==
    /\ blob \in {BlobNotFound, BlobAllSections}
    /\ cfg = [s \in Sessions |-> None]
    /\ last = Call("none", 0, "", FALSE, "ok", 0)
    /\ assigned = [s \in Sessions |-> {}]
    /\ reg = RegistryFixture

NextBackend ==
    \E s \in Sessions :
        \/ Load(s)
        \/ Access(s, "backend")
        \/ \E f \in BackendNameFields, v \in {"other", NonStr} : WriteBackend(s, f, v)
        \/ Upload(s)

SpecBackend == InitBackend /\ [][NextBackend]_vars

\* the derived names of two deployments, whose names are drawn at the start
InitNames ==
    /\ blob = BlobNotFound
    /\ cfg = [s \in Sessions |-> None]
    /\ \E name1 \in DeploymentNames, name2 \in DeploymentNames :
           last = Call("names", 0, "", name1 # name2, "ok", [names |-> <<name1, name2>>])
    /\ assigned = [s \in Sessions |-> {}]
    /\ reg = RegistryFixture

NextNames == Locate

SpecNames == InitNames /\ [][NextNames]_vars

\* runs of check_merge_requests.py
NextRequests ==
    \/ \E failure \in BOOLEAN : StartRun(failure)
    \/ \E mr \in MergeRequests : CheckMergeRequest(mr)

SpecRequests == InitContext /\ [][NextRequests]_vars

\* two sessions that load the document and create SREs; nothing is
\* uploaded, so both work from the document the blob held at the start
InitRace ==
    /\ blob \in {BlobNotFound, BlobShmOnly, BlobDeployed}
    /\ cfg = [s \in Sessions |-> None]
    /\ last = Call("none", 0, "", FALSE, "ok", 0)
    /\ assigned = [s \in Sessions |-> {}]
    /\ reg = RegistryFixture

NextRace ==
    \E s \in Sessions :
        \/ Load(s)
        \/ \E n \in SreNames : Sre(s, n)

SpecRace == InitRace /\ [][NextRace]_vars

(***************************************************************************)
(* Properties                                                              *)
(***************************************************************************)
\* the step is a call of sre() that created a section
SreCreated == last'.op = "sre" /\ ~last'.known

C1_Distinct ==
    \A s \in Sessions :
        IsSome(cfg[s]) =>
            \A n, m \in DOMAIN Val(cfg[s]).sres :
                /\ Val(cfg[s]).sres[n].index >= 1
                /\ n # m => Val(cfg[s]).sres[n].index # Val(cfg[s]).sres[m].index

C1_Step ==
    /\ SreCreated =>
          LET before == Val(cfg[last'.s]).sres
              held == {before[n].index : n \in DOMAIN before}
              new == Val(cfg'[last'.s]).sres[last'.name].index
          IN  /\ new = (IF held = {} THEN 1 ELSE 1 + SetMax(held))
              /\ last'.ret = new
    /\ (SreCreated /\ last.op = "sre" /\ ~last.known /\ last.s = last'.s)
          => last'.ret > last.ret

\* C1: sre(name) with a name not in the mapping adds the section with index
\* 1 + the highest index in the mapping (1 when the mapping is empty); a
\* second new name created right after a first gets a strictly larger index;
\* the indices in a mapping are always pairwise distinct and at least 1.
C1_NextIndex == []C1_Distinct /\ [][C1_Step]_vars

\* two names have been created one after the other
C1_Witness ==
    /\ last.op = "sre" /\ ~last.known /\ last.ret >= 2
    /\ Cardinality(DOMAIN Val(cfg[last.s]).sres) >= 2

\* C2 (as claimed): the index given to a newly created SRE is strictly
\* greater than every index assigned earlier in the document's lifetime,
\* removed SREs included.
C2_NeverReused ==
    [][SreCreated => \A i \in assigned[last'.s] : last'.ret > i]_vars

\* C2 (amended): the index given to a newly created SRE is strictly greater
\* than the index of every SRE that is in the mapping when it is created.
C2_AboveHeld ==
    [][SreCreated =>
          \A n \in DOMAIN Val(cfg[last'.s]).sres :
              last'.ret > Val(cfg[last'.s]).sres[n].index]_vars

\* an SRE was created after another one had been removed, while a third
\* was still in the mapping
C2_Witness ==
    /\ last.op = "sre" /\ ~last.known
    /\ Cardinality(DOMAIN Val(cfg[last.s]).sres) >= 2
    /\ \E i \in assigned[last.s] : i \notin Indices(Val(cfg[last.s]))

\* C3: a second sre(name) right after the call that created name returns the
\* same index and changes nothing in the document.
C3_GetOrCreate ==
    [][(/\ last.op = "sre" /\ ~last.known
        /\ last'.op = "sre" /\ last'.s = last.s /\ last'.name = last.name)
          => /\ last'.known
             /\ last'.ret = last.ret
             /\ cfg' = cfg]_vars

\* sre() was called on a name that an earlier sre() call of this session
\* created (the blob does not hold it)
C3_Witness ==
    /\ last.op = "sre" /\ last.known
    /\ last.name \notin (IF "sre" \in DOMAIN YamlInput(blob)
                         THEN DOMAIN YamlInput(blob)["sre"] ELSE {})
    /\ Val(cfg[last.s]).sres[last.name].index = last.ret

\* the names of the SREs in the blob
BlobSres == IF "sre" \in DOMAIN YamlInput(blob) THEN DOMAIN YamlInput(blob)["sre"] ELSE {}

\* C4: after an upload that returned, the blob is the serialization of the
\* uploading session's document, whatever the blob held before; an SRE that
\* only the other session's document holds is not in it.
C4_LastWriterWins ==
    (last.op = "upload" /\ last.out = "ok") =>
        LET c == Val(cfg[last.s])
        IN  /\ blob = BlobText(StrContents(c))
            /\ BlobSres = DOMAIN c.sres
            /\ \A t \in Sessions \ {last.s} :
                   IsSome(cfg[t]) =>
                       \A n \in DOMAIN Val(cfg[t]).sres \ DOMAIN c.sres :
                           n \notin BlobSres

\* both sessions have uploaded (each has serialized its document) and the
\* SRE that only the earlier writer holds is gone from the blob
C4_Witness ==
    /\ last.op = "upload" /\ last.out = "ok"
    /\ \E t \in Sessions \ {last.s} :
           /\ IsSome(cfg[t]) /\ IsSome(Val(cfg[t]).tags) /\ StrOk(Val(cfg[t]))
           /\ \E n \in DOMAIN Val(cfg[t]).sres :
                  n \notin DOMAIN Val(cfg[last.s]).sres /\ n \notin BlobSres
           /\ \E n \in DOMAIN Val(cfg[last.s]).sres : n \notin DOMAIN Val(cfg[t]).sres

\* C5 (as claimed): decoding the serialized text of a document whose present
\* sections are all valid yields a document equal to it, with the same
\* sections present and absent.
C5_RoundTrip ==
    \A s \in Sessions :
        (IsSome(cfg[s]) /\ StrOk(Val(cfg[s]))) =>
            LET r == Construct(BlobText(StrContents(Val(cfg[s]))))
            IN  r.out = "ok" /\ r.doc = Val(cfg[s])

\* the last call was Config() against a blob that does not exist
LoadedNotFound == last.op = "load" /\ blob.status = "DataSafeHavenAzureError"

BadlyTyped(b) ==
    /\ b.status = "ok"
    /\ "azure" \in DOMAIN b.data
    /\ \E f \in DOMAIN b.data["azure"] : b.data["azure"][f] = NonStr

C9_RemoveUnknownNoop ==
    [][(last'.op \in {"remove_sre", "remove_stack"} /\ ~last'.known)
          => cfg' = cfg]_vars

\* C10 (as claimed): sre(name) with a name that is not in the mapping fails
\* with DataSafeHavenConfigError and adds no entry for the name.
C10_MustExist ==
    [][(last'.op = "sre" /\ ~last'.known)
          => /\ last'.out = "DataSafeHavenConfigError"
             /\ last'.name \notin DOMAIN Val(cfg'[last'.s]).sres]_vars

\* every required top-level section is present and valid
RequiredValid(c) ==
    /\ IsSome(c.azure) /\ AzureValid(Val(c.azure))
    /\ IsSome(c.shm) /\ ShmValid(Val(c.shm))

\* C11: is_complete(require_sres) answers true exactly when the azure and shm
\* sections are present and valid and, if require_sres, some SRE section is
\* present and valid; it answers false for a template document and for a
\* document in which azure or shm is absent.
C11_IsComplete ==
    last.op = "is_complete" =>
        LET c == Val(cfg[last.s])
        IN  /\ last.ret <=>
                  /\ RequiredValid(c)
                  /\ last.known => \E n \in DOMAIN c.sres : SreValid(c.sres[n])
            /\ c = Template => ~last.ret
            /\ (~IsSome(c.azure) \/ ~IsSome(c.shm)) => ~last.ret

\* a document without SREs was found complete when no SRE was asked for;
\* it is not complete when one is
C11_Witness ==
    /\ last.op = "is_complete" /\ ~last.known /\ last.ret
    /\ DOMAIN Val(cfg[last.s]).sres = {}
    /\ ~IsComplete(Val(cfg[last.s]), TRUE)

\* the fields of each section that are declared without a default
NoDefaultFields(k) ==
    CASE k = "pulumi" -> {"encryption_key_id"}
      [] k = "tags" -> {}
      [] OTHER -> StrFields(k)

\* the fields of each section whose value must have a shape
ShapedFields(k) ==
    CASE k = "azure" -> StrFields(k)
      [] k = "shm" -> {"aad_tenant_id", "admin_email_address", "timezone"}
      [] OTHER -> {}

\* C12 (as claimed): to_dict() of a section returns a mapping only when
\* validate() succeeds, and raises whenever a field of the section is unset
\* and has no default or holds a string of the wrong shape.
C12_ToDictValidates ==
    (last.op = "to_dict" /\ last.name \in SectionKeys) =>
        LET sec == SectionOf(Val(cfg[last.s]), last.name)
        IN  /\ last.out = "ok" => SectionValid(last.name, sec)
            /\ (\E f \in NoDefaultFields(last.name) : sec[f] = Unset)
                   => last.out = "ValueError"
            /\ (\E f \in ShapedFields(last.name) : sec[f] = "junk")
                   => last.out = "ValueError"

\* the pulumi section of the document a call was made on, as the accessor
\* hands it out
PulumiAt(o) == Val(AccessPulumi(Val(o)).pulumi)

\* C13: an assignment to a validated string field stores a raw value only
\* if it is a string; a raw value of another type raises
\* DataSafeHavenParameterError with a message naming the field and the
\* value, and the field keeps what it held; a TypeChecked instance is
\* stored as it is, without a check.  No other field changes.
C13_CheckedWrite ==
    [][last'.op = "write_pulumi" =>
          LET f == last'.name
              v == last'.ret.value
              before == PulumiAt(cfg[last'.s])
              after == PulumiAt(cfg'[last'.s])
          IN  /\ (v # Unset /\ IsStr(v)) => (last'.out = "ok" /\ after[f] = v)
              /\ (v # Unset /\ ~IsStr(v)) =>
                     /\ last'.out = "DataSafeHavenParameterError"
                     /\ \E i, j \in DOMAIN last'.ret.msg :
                            last'.ret.msg[i] = f /\ last'.ret.msg[j] = v
                     /\ after[f] = before[f]
              /\ v = Unset => (last'.out = "ok" /\ after[f] = Unset)
              /\ \A g \in DOMAIN after \ {f} : after[g] = before[g]]_vars

\* an integer was assigned to a field that held a string, and the string
\* is still there
C13_Witness ==
    /\ last.op = "write_pulumi" /\ last.ret.value = NonStr
    /\ last.out = "DataSafeHavenParameterError"
    /\ Val(Val(cfg[last.s]).pulumi)[last.name] = "good"

\* C14: reading a validated string field does not raise; it gives the
\* stored value when that is a string; when no string is stored it gives
\* the field's default if it has one and otherwise the descriptor, which is
\* no string.
C14_ReadNeverRaises ==
    last.op = "read_pulumi" =>
        LET stored == Val(Val(cfg[last.s]).pulumi)[last.name]
        IN  /\ last.out = "ok"
            /\ IsStr(stored) => last.ret = stored
            /\ (stored = Unset /\ last.name = "encryption_key_name")
                   => last.ret = "pulumi-encryption-key"
            /\ (stored = Unset /\ last.name = "encryption_key_id")
                   => (last.ret = Unset /\ ~IsStr(last.ret))

\* both cases of a field that holds no string have been read: the one with
\* a default here, the one without in the same document
C14_Witness ==
    /\ last.op = "read_pulumi" /\ last.name = "encryption_key_name"
    /\ Val(Val(cfg[last.s]).pulumi).encryption_key_name = Unset
    /\ Val(Val(cfg[last.s]).pulumi).encryption_key_id = Unset
    /\ last.ret = "pulumi-encryption-key"

\* the SKUs held by a research_desktops dict, the SKUs of a list
HeldSkus(d) == {d[k].sku : k \in DOMAIN d}
ListSkus(list) == {list[i] : i \in DOMAIN list}

\* the research desktops of the section a call was made on
DesktopsAt(o, name) == Val(o).sres[name].research_desktops

\* C15 (as claimed): set_research_desktops(skus) leaves research_desktops
\* as it was when the set of requested SKUs equals the set of SKUs held,
\* whatever the order of the list, and replaces it only when the sets differ.
C15_SameSetUnchanged ==
    [][last'.op = "set_research_desktops" =>
          LET before == DesktopsAt(cfg[last'.s], last'.name)
              after == DesktopsAt(cfg'[last'.s], last'.name)
          IN  IF ListSkus(last'.ret) = HeldSkus(before)
              THEN after = before
              ELSE after = Enumerated(last'.ret)]_vars

\* C16: after set_research_desktops(skus) the keys are workspace-00,
\* workspace-01, ... in list order, the i-th key holding the i-th SKU, and a
\* second call with the same list right after the first changes nothing.
C16_Idempotent ==
    [][last'.op = "set_research_desktops" =>
          LET after == DesktopsAt(cfg'[last'.s], last'.name)
          IN  /\ DOMAIN after = {WorkspaceKey(i - 1) : i \in DOMAIN last'.ret}
              /\ \A i \in DOMAIN last'.ret :
                     after[WorkspaceKey(i - 1)].sku = last'.ret[i]
              /\ (/\ last.op = "set_research_desktops" /\ last.s = last'.s
                  /\ last.name = last'.name /\ last.ret = last'.ret)
                     => cfg' = cfg]_vars

\* a list of two different SKUs was set on a section that held desktops
\* before, and each key holds the SKU at its place in the list
C16_Witness ==
    /\ last.op = "set_research_desktops"
    /\ Len(last.ret) = 2 /\ last.ret[1] # last.ret[2]
    /\ DesktopsAt(cfg[last.s], last.name)["workspace-01"].sku = last.ret[2]

\* C17 (as claimed): the remote_desktop subsection of a section that sre()
\* has just created, built by ConfigSubsectionRemoteDesktopOpts() with no
\* arguments, reads False for allow_copy and for allow_paste.
C17_DefaultForbidden ==
    [][SreCreated =>
          LET rd == Val(cfg'[last'.s]).sres[last'.name].remote_desktop
          IN  /\ rd = RemoteDesktopDefault
              /\ GetBool(rd.allow_copy, Unset) = "False"
              /\ GetBool(rd.allow_paste, Unset) = "False"]_vars

\* the top-level keys the claim counts as recognised
RecognisedKeys == SectionKeys \cup {"sre"}

\* C18 (as claimed): after a document has been decoded, each of the
\* sections azure, backend, pulumi, shm, tags is present exactly when its
\* key is in the mapping, the SREs are those under the sre key, a key that
\* is not recognised changes nothing, and an accessor makes its section
\* present.
C18_KeysDecoded ==
    /\ [](  (last.op = "load" /\ blob.status = "ok" /\ last.out = "ok") =>
               LET y == blob.data
                   c == Val(cfg[last.s])
               IN  /\ \A k \in SectionKeys : IsSome(c[k]) <=> k \in DOMAIN y
                   /\ DOMAIN c.sres = (IF "sre" \in DOMAIN y THEN DOMAIN y["sre"] ELSE {})
                   /\ c = Construct(BlobText([k \in DOMAIN y \cap RecognisedKeys |-> y[k]])).doc)
    /\ [][last'.op = "access" => IsSome(Val(cfg'[last'.s])[last'.name])]_vars

C20_UpdateFrame ==
    [][/\ last'.op = "update_shm" =>
             LET before == Val(Val(cfg[last'.s]).shm)
                 after == Val(Val(cfg'[last'.s]).shm)
             IN  /\ \A f \in DOMAIN after \ DOMAIN last'.ret : after[f] = before[f]
                 /\ last'.out = "ok" =>
                        \A f \in DOMAIN last'.ret : after[f] = last'.ret[f]
                 /\ [Val(cfg'[last'.s]) EXCEPT !.shm = None]
                        = [Val(cfg[last'.s]) EXCEPT !.shm = None]
                 /\ reg' = reg
       /\ last'.op = "update_context" =>
             /\ cfg' = cfg
             /\ reg'.selected = reg.selected
             /\ IF IsSome(reg.selected)
                THEN LET k == Val(reg.selected)
                     IN  /\ last'.out = "ok"
                         /\ \A f \in DOMAIN reg.contexts[k] \ DOMAIN last'.ret :
                                reg'.contexts[k][f] = reg.contexts[k][f]
                         /\ \A f \in DOMAIN last'.ret :
                                reg'.contexts[k][f] = last'.ret[f]
                         /\ \A j \in DOMAIN reg.contexts \ {k} :
                                reg'.contexts[j] = reg.contexts[j]
                         /\ DOMAIN reg'.contexts = DOMAIN reg.contexts
                ELSE last'.out = "DataSafeHavenConfigError" /\ reg' = reg]_vars

\* the name of the second context was replaced after it had been selected,
\* the first context is as it was, and the fqdn of the shm section was
\* replaced while its timezone is still the one it had
C20_Witness ==
    /\ last.op = "update_context" /\ DOMAIN last.ret = {"name"}
    /\ reg.selected = Some("gems")
    /\ reg.contexts["gems"].name = "replaced"
    /\ reg.contexts["gems"].subscription_name = "Data Safe Haven Gems"
    /\ reg.contexts["acmedeployment"] = RegistryFixture.contexts["acmedeployment"]
    /\ Val(Val(cfg[1]).shm).fqdn = "junk"
    /\ Val(Val(cfg[1]).shm).timezone = "good"

\* selected is none or a key of the contexts
SelectedDefined ==
    IsSome(reg.selected) => Val(reg.selected) \in DOMAIN reg.contexts

\* C21: whatever add, remove, update, from_file and assignments to selected
\* have been made, selected is none or a key of the contexts; assigning a
\* key that is not defined raises DataSafeHavenParameterError and leaves
\* the registry as it was.
C21_SelectedDefined ==
    /\ []SelectedDefined
    /\ [][(last'.op = "select" /\ last'.known
              /\ last'.name \notin DOMAIN reg.contexts)
             => (last'.out = "DataSafeHavenParameterError" /\ reg' = reg)]_vars

\* a key that had been removed while it was selected was assigned to
\* selected and refused
C21_Witness ==
    /\ last.op = "select" /\ last.name = "gems"
    /\ last.out = "DataSafeHavenParameterError"
    /\ reg.selected = None
    /\ "gems" \notin DOMAIN reg.contexts

\* C22: remove(key) of the selected context deletes it and sets selected
\* to none; remove(key) of another context deletes it and leaves selected
\* as it was; remove(key) of an undefined key raises
\* DataSafeHavenParameterError and changes nothing.  No other context
\* changes.
C22_Remove ==
    [][last'.op = "remove" =>
          LET key == last'.name
          IN  IF key \in DOMAIN reg.contexts
              THEN /\ last'.out = "ok"
                   /\ DOMAIN reg'.contexts = DOMAIN reg.contexts \ {key}
                   /\ \A k \in DOMAIN reg'.contexts : reg'.contexts[k] = reg.contexts[k]
                   /\ reg'.selected = (IF reg.selected = Some(key) THEN None
                                       ELSE reg.selected)
              ELSE last'.out = "DataSafeHavenParameterError" /\ reg' = reg]_vars

\* the selected context was removed while another one was left, and
\* nothing is selected
C22_Witness ==
    /\ last.op = "remove" /\ last.known /\ last.out = "ok"
    /\ reg.selected = None
    /\ DOMAIN reg.contexts # {}

\* C23: assert_context() returns the selected context when one is selected
\* and raises DataSafeHavenConfigError "No context selected" when none is,
\* also right after the selected context has been removed; update() with
\* no context selected raises the same error and changes nothing.
C23_AssertContext ==
    /\ [](last.op = "assert_context" =>
              IF IsSome(reg.selected)
              THEN last.out = "ok" /\ last.ret = reg.contexts[Val(reg.selected)]
              ELSE /\ last.out = "DataSafeHavenConfigError"
                   /\ last.ret = "No context selected")
    /\ [][/\ ((last.op = "remove" /\ last.known /\ last.out = "ok"
                /\ last'.op = "assert_context")
                 => last'.out = "DataSafeHavenConfigError")
           /\ ((last'.op = "update_context" /\ ~IsSome(reg.selected))
                 => (last'.out = "DataSafeHavenConfigError" /\ reg' = reg))]_vars

\* assert_context() raised although contexts are defined
C23_Witness ==
    /\ last.op = "assert_context" /\ last.out = "DataSafeHavenConfigError"
    /\ DOMAIN reg.contexts # {}

\* C24 (as claimed): from_file raises DataSafeHavenConfigError when the
\* file is missing and DataSafeHavenParameterError when the document is not
\* a mapping, lacks selected or contexts, or selects an undefined key; no
\* registry is returned then.
C24_LoadErrors ==
    [][last'.op = "from_file" =>
          LET file == last'.ret
          IN  /\ (file.kind = "missing" =>
                     (last'.out = "DataSafeHavenConfigError" /\ reg' = reg))
              /\ (\/ file.kind = "list"
                  \/ (file.kind = "mapping" /\ DOMAIN file.data # {"selected", "contexts"})
                  \/ (/\ file.kind = "mapping"
                      /\ DOMAIN file.data = {"selected", "contexts"}
                      /\ IsSome(file.data["selected"])
                      /\ Val(file.data["selected"]) \notin DOMAIN file.data["contexts"]))
                     => (last'.out = "DataSafeHavenParameterError" /\ reg' = reg)]_vars

\* C24 (amended): from_file raises DataSafeHavenConfigError when the file
\* is missing, when its text is not YAML and when the YAML is not a
\* mapping; it raises DataSafeHavenParameterError when the mapping lacks
\* selected or contexts or selects an undefined key; no registry is
\* returned in any of these cases, and one is in every other.
C24_LoadErrorsByKind ==
    [][last'.op = "from_file" =>
          LET file == last'.ret
          IN  IF file.kind \in {"missing", "unparsable", "list"}
              THEN last'.out = "DataSafeHavenConfigError" /\ reg' = reg
              ELSE IF \/ DOMAIN file.data # {"selected", "contexts"}
                      \/ (/\ IsSome(file.data["selected"])
                          /\ Val(file.data["selected"]) \notin DOMAIN file.data["contexts"])
              THEN last'.out = "DataSafeHavenParameterError" /\ reg' = reg
              ELSE /\ last'.out = "ok"
                   /\ reg'.selected = file.data["selected"]
                   /\ reg'.contexts = file.data["contexts"]]_vars

\* a file that selects an undefined key was refused and the registry the
\* process had, changed since it was loaded, is still there
C24_Witness ==
    /\ last.op = "from_file" /\ last.out = "DataSafeHavenParameterError"
    /\ last.ret.kind = "mapping" /\ DOMAIN last.ret.data = {"selected", "contexts"}
    /\ "example" \in DOMAIN reg.contexts

\* C25: the derived names cannot be set independently: whenever a document
\* holds a backend section, its resource_group_name, storage_account_name
\* and storage_container_name are the names the document downloads from
\* and uploads to.
C25_BackendNamesDerived ==
    \A s \in Sessions :
        (IsSome(cfg[s]) /\ IsSome(Val(cfg[s]).backend)) =>
            LET b == Val(Val(cfg[s]).backend)
            IN  /\ b.resource_group_name = BackendResourceGroupName
                /\ b.storage_account_name = BackendStorageAccountName
                /\ b.storage_container_name = BackendStorageContainerName

\* C26 (as claimed): two deployments with different names never look for
\* their document in the same place.
C26_LocationOneToOne ==
    (last.op = "locate" /\ last.ret.names[1] # last.ret.names[2])
        => last.ret.locations[1] # last.ret.locations[2]

\* C26 (amended): two deployments look for their document in the same
\* place exactly when their names are the same once everything but letters
\* and digits is dropped and upper case is lowered; then all derived names
\* agree, otherwise the file names differ even where the storage account
\* names agree.
C26_LocationOneToOneNormalised ==
    last.op = "locate" =>
        LET name1 == last.ret.names[1]
            name2 == last.ret.names[2]
            loc1 == last.ret.locations[1]
            loc2 == last.ret.locations[2]
        IN  /\ ShmNameOf(name1) = ShmNameOf(name2) => loc1 = loc2
            /\ ShmNameOf(name1) # ShmNameOf(name2) =>
                   <<loc1.storage_account_name, loc1.storage_container_name, loc1.filename>>
                       # <<loc2.storage_account_name, loc2.storage_container_name, loc2.filename>>

\* two names that share the storage account and the container and differ
\* in the file
C26_Witness ==
    /\ last.op = "locate"
    /\ last.ret.locations[1].storage_account_name = last.ret.locations[2].storage_account_name
    /\ last.ret.locations[1].filename # last.ret.locations[2].filename

\* the notes of a merge request that are resolvable and not resolved
UnresolvedNotes(mr) ==
    {i \in 1..Len(mr.notes) : mr.notes[i].resolvable /\ ~mr.notes[i].resolved}

\* C27: a merge request is accepted only if its status is can_be_merged,
\* it is not flagged as work in progress, it has no unresolved discussion,
\* at least two upvotes and no downvote; the approved repository is pushed
\* to the user server only when the accept call answered with the state
\* merged.
C27_AcceptOnlyApproved ==
    last.op = "check_merge_request" =>
        /\ last.ret.accepted =>
               /\ last.ret.mr.merge_status = "can_be_merged"
               /\ ~last.ret.mr.work_in_progress
               /\ UnresolvedNotes(last.ret.mr) = {}
               /\ last.ret.mr.upvotes >= 2
               /\ last.ret.mr.downvotes = 0
        /\ last.ret.pushed => (last.ret.accepted /\ last.ret.result = "merged")

\* the SREs session s created: those of its document that the blob lacks
NewSres(s) ==
    IF IsSome(cfg[s]) THEN DOMAIN Val(cfg[s]).sres \ BlobSres ELSE {}

\* C28: two sessions that loaded the same document and each created a
\* different new SRE before either uploaded did not give them the same
\* index.
C28_DistinctAcrossSessions ==
    \A s1 \in Sessions, s2 \in Sessions :
        s1 # s2 =>
            \A n1 \in NewSres(s1), n2 \in NewSres(s2) :
                n1 # n2 => Val(cfg[s1]).sres[n1].index # Val(cfg[s2]).sres[n2].index

\* the top-level keys of the sections a document holds
PresentKeys(c) ==
    {k \in {"azure", "backend", "pulumi", "shm", "tags"} : IsSome(c[k])}
    \cup (IF DOMAIN c.sres # {} THEN {"sre"} ELSE {})

\* C29: str(config), as upload() evaluates it, does not change the
\* document: the sections that were absent are still absent, and only the
\* sections that were present appear in the text.
C29_StrPure ==
    [][last'.op = "upload" =>
          /\ cfg'[last'.s] = cfg[last'.s]
          /\ last'.out = "ok" => DOMAIN blob'.data \subseteq PresentKeys(Val(cfg[last'.s]))]_vars

\* every section the document holds passes validate()
PresentValid(c) ==
    /\ StrSectionsValid(c)
    /\ IsSome(c.tags) => TagsValid(Val(c.tags))

\* C30: upload() of a document one of whose present sections fails
\* validation raises ValueError and leaves the blob as it was; the blob
\* changes only in an upload() of a document whose present sections are
\* all valid, and then holds its serialization.
C30_UploadValidated ==
    [][/\ (last'.op = "upload" /\ ~PresentValid(Val(cfg[last'.s]))) =>
              (last'.out = "ValueError" /\ blob' = blob)
       /\ blob' # blob =>
              /\ last'.op = "upload" /\ last'.out = "ok"
              /\ PresentValid(Val(cfg[last'.s]))
              /\ blob' = BlobText(StrContents(Val(cfg[last'.s])))]_vars

\* upload() raised for a document with an SRE that does not validate while
\* the blob holds a document without that SRE
C30_Witness ==
    /\ last.op = "upload" /\ last.out = "ValueError"
    /\ blob.status = "ok"
    /\ \E n \in DOMAIN Val(cfg[last.s]).sres :
           ~SreValid(Val(cfg[last.s]).sres[n]) /\ n \notin BlobSres

====
